---- MODULE Spec2Model ----
(***************************************************************************)
(* Zero-copy video presentation on DRM: the direct-scanout bridge          *)
(* (CVideoLayerBridgeDRMPRIME) and the texture-composite renderer          *)
(* (CRendererDRMPRIMEGLES), modelled as state machines.                    *)
(*                                                                         *)
(* The bridge's methods are pure operators on a "world" record w (the      *)
(* bridge's fields, the fields of the video buffers it touches, and the    *)
(* kernel objects it creates through libdrm); each action applies one      *)
(* public method to the current world.  Answers of the external            *)
(* collaborators (libdrm return codes, connector and EDID capabilities,    *)
(* the ids the kernel hands out) are inputs of the call, drawn with \E.    *)
(***************************************************************************)
EXTENDS Integers, Sequences, FiniteSets, TLC

\* ------------------------------------------------------------------ bounds
\* number of video buffers (CVideoBufferDRMPRIME objects) in play
NBuf == 3
\* highest coordinate / extent of the small destination rectangles
MaxCoord == 3
\* size of the renderer's ring of slots in the model (4 in the program)
NUM_BUFFERS == 2
\* number of video buffers where every descriptor shape is tried on each
NMapBuf == 2
\* most layers of the descriptors built from every combination of formats
MaxLayers == 3

\* --------------------------------------------------------------- constants
AV_DRM_MAX_PLANES == 4
\* stands for 0x00ffffffffffffff, which is outside TLC's integer range
DRM_FORMAT_MOD_INVALID == 16777215
DRM_MODE_FB_MODIFIERS == 2
\* m_DRM->GetCrtc()->GetCrtcId(): the id of the one crtc in use
GetCrtcId == 7
\* value of a property that has not been staged
Unset == -1

Buf == 1..NBuf
\* nullptr
NULL == 0
PlaneIdx == 0..(AV_DRM_MAX_PLANES - 1)

Max(a, b) == IF a >= b THEN a ELSE b
Pow2(n) == 2 ^ n

VARIABLES
    m_buffer,        \* bridge: buffer being presented (NULL or a buffer)
    m_prev_buffer,   \* bridge: buffer presented before it
    m_hdr_blob_id,   \* bridge: id of the HDR metadata blob, 0 if none
    m_hdr_metadata,  \* bridge: struct hdr_output_metadata
    m_fb_id,         \* per buffer: framebuffer id, 0 if not imported
    m_handles,       \* per buffer: GEM handle per object, 0 if none
    refs,            \* per buffer: references acquired and not yet released
    descRefs,        \* per buffer: descriptor references held (acquired, not released)
    fbs,             \* kernel: live framebuffers
    gem,             \* kernel: open GEM handles
    blobs,           \* kernel: live property blobs
    props,           \* atomic request: last value staged per property
    m_configured,    \* renderer: Configure succeeded
    m_buffers,       \* renderer: the ring of BUFFER slots
    m_config,        \* renderer: m_format, m_sourceWidth, ... set by Configure
    log,             \* what the last call did
    last,            \* the last call: its name and arguments
    shown,           \* bridge: buffer of the last successful SetVideoPlane
    alive,           \* the object has not been destroyed
    run,             \* private methods called directly, in order
    snap,            \* the state when the first of them was called
    input            \* the caller's destination rectangle; a descriptor under test

bridgeVars == <<m_buffer, m_prev_buffer, m_hdr_blob_id, m_hdr_metadata, m_fb_id,
                m_handles, refs, descRefs, fbs, gem, blobs, props, log>>
rendererVars == <<m_configured, m_buffers, m_config>>
histVars == <<last, shown, alive, run, snap, input>>
vars == <<bridgeVars, rendererVars, histVars>>

\* ------------------------------------------------------------ descriptors
\* AVDRMFrameDescriptor: objects (format_modifier), layers (format, planes
\* (object_index, pitch, offset)).  Sequences are 1-based; index i of the
\* source is element i + 1.
Obj(mod) == [format_modifier |-> mod]
Pln(o, pitch, offset) == [object_index |-> o, pitch |-> pitch, offset |-> offset]
Lay(fmt, planes) == [format |-> fmt, planes |-> planes]
Desc(objects, layers) == [objects |-> objects, layers |-> layers]
nb_objects(d) == Len(d.objects)
nb_layers(d) == Len(d.layers)
nb_planes(l) == Len(l.planes)

\* one object, one NV12 layer of two planes, linear
DescNV12 == Desc(<<Obj(0)>>, <<Lay("NV12", <<Pln(0, 16, 0), Pln(0, 16, 64)>>)>>)
\* two objects, an R8 and a GR88 layer of one plane each, vendor modifier
DescSplit2 == Desc(<<Obj(1), Obj(1)>>,
                   <<Lay("R8", <<Pln(0, 16, 0)>>), Lay("GR88", <<Pln(1, 16, 0)>>)>>)
\* three objects, three R8 layers; only the chroma objects carry a modifier
DescSplit3 == Desc(<<Obj(0), Obj(1), Obj(1)>>,
                   <<Lay("R8", <<Pln(0, 16, 0)>>), Lay("R8", <<Pln(1, 8, 0)>>),
                     Lay("R8", <<Pln(2, 8, 0)>>)>>)
\* four objects, one layer of four planes, invalid modifier
DescFour == Desc(<<Obj(DRM_FORMAT_MOD_INVALID), Obj(0), Obj(0), Obj(0)>>,
                 <<Lay("XRGB8888", <<Pln(0, 16, 0), Pln(1, 16, 0), Pln(2, 16, 0),
                                     Pln(3, 16, 0)>>)>>)
Descs == {DescNV12, DescSplit2, DescSplit3, DescFour}
\* the descriptor of one plane per layer, each in its own object, whose layers
\* have the formats fs
DescOfFormats(fs) ==
    Desc([i \in 1..Len(fs) |-> Obj(0)],
         [i \in 1..Len(fs) |-> Lay(fs[i], <<Pln(i - 1, 16, 0)>>)])
LayerFormats == {"R8", "GR88", "R16", "GR1616"}
FormatDescs ==
    {DescOfFormats(fs) : fs \in UNION {[1..n -> LayerFormats] : n \in 1..MaxLayers}}

\* buffer->GetDescriptor() where each buffer keeps one descriptor
DescOf(b) ==
    CASE b % 4 = 1 -> DescSplit2
      [] b % 4 = 2 -> DescNV12
      [] b % 4 = 3 -> DescSplit3
      [] OTHER -> DescFour

\* buffer->GetWidth(), buffer->GetHeight()
GetWidth(b) == 16 * b
GetHeight(b) == 8 * b

\* the GEM handle the kernel gives for object o of buffer b (one per dma-buf)
HandleOf(b, o) == AV_DRM_MAX_PLANES * (b - 1) + o + 1

\* ----------------------------------------------------------------- world
World ==
    [m_buffer |-> m_buffer, m_prev_buffer |-> m_prev_buffer,
     m_hdr_blob_id |-> m_hdr_blob_id, m_hdr_metadata |-> m_hdr_metadata,
     m_fb_id |-> m_fb_id, m_handles |-> m_handles, refs |-> refs,
     descRefs |-> descRefs, fbs |-> fbs, gem |-> gem, blobs |-> blobs,
     props |-> props,
     log |-> [ret |-> TRUE, staged |-> {}, active |-> FALSE, addfb |-> 0,
              rmfb |-> 0, acq |-> 0, rel |-> 0, underflow |-> 0, errors |-> 0,
              unmapped |-> {}, closed |-> 0, destroyed |-> {},
              liveDrops |-> 0, peakBlobs |-> Cardinality(blobs)]]

Commit(w) ==
    /\ m_buffer' = w.m_buffer
    /\ m_prev_buffer' = w.m_prev_buffer
    /\ m_hdr_blob_id' = w.m_hdr_blob_id
    /\ m_hdr_metadata' = w.m_hdr_metadata
    /\ m_fb_id' = w.m_fb_id
    /\ m_handles' = w.m_handles
    /\ refs' = w.refs
    /\ descRefs' = w.descRefs
    /\ fbs' = w.fbs
    /\ gem' = w.gem
    /\ blobs' = w.blobs
    /\ props' = w.props
    /\ log' = w.log

PropNames == {"FB_ID", "CRTC_ID", "SRC_X", "SRC_Y", "SRC_W", "SRC_H", "CRTC_X",
              "CRTC_Y", "CRTC_W", "CRTC_H", "COLOR_ENCODING", "COLOR_RANGE",
              "Colorspace", "HDR_OUTPUT_METADATA"}

\* m_DRM->AddProperty(object, name, value)
AddProperty(w, name, value) ==
    [w EXCEPT !.props[name] = value, !.log.staged = @ \cup {name}]

\* m_DRM->SetActive(true)
SetActive(w) == [w EXCEPT !.log.active = TRUE]

\* CLog::Log(LOGERROR, ...)
LogError(w) == [w EXCEPT !.log.errors = @ + 1]

\* buffer->AcquireDescriptor() that succeeds, buffer->ReleaseDescriptor(): the
\* descriptor is reference counted; a release that meets no reference is
\* counted as an underflow and leaves the count at zero
AcquireDescriptor(w, b) == [w EXCEPT !.descRefs[b] = @ + 1, !.log.acq = @ + 1]
ReleaseDescriptor(w, b) ==
    IF w.descRefs[b] > 0
    THEN [w EXCEPT !.descRefs[b] = @ - 1, !.log.rel = @ + 1]
    ELSE [w EXCEPT !.log.rel = @ + 1, !.log.underflow = @ + 1]

\* ---------------------------------------------------------------- Unmap
RECURSIVE CloseHandles(_, _, _)
\* the loop of Unmap over m_handles[i], from index i on
CloseHandles(w, b, i) ==
    IF i >= AV_DRM_MAX_PLANES THEN w
    ELSE IF w.m_handles[b][i] # 0
         THEN CloseHandles([w EXCEPT !.gem = @ \ {w.m_handles[b][i]},
                                     !.m_handles[b][i] = 0,
                                     !.log.closed = @ + 1], b, i + 1)
         ELSE CloseHandles(w, b, i + 1)

\* Unmap that closes the first handle only
UnmapFirstHandle(w, b) ==
    LET w1 == IF w.m_fb_id[b] # 0
              THEN [w EXCEPT !.fbs = {f \in @ : f.id # w.m_fb_id[b]},
                             !.m_fb_id[b] = 0,
                             !.log.rmfb = @ + 1]
              ELSE w
        w2 == IF w1.m_handles[b][0] # 0
              THEN [w1 EXCEPT !.gem = @ \ {w1.m_handles[b][0]},
                              !.m_handles[b][0] = 0,
                              !.log.closed = @ + 1]
              ELSE w1
    IN  [ReleaseDescriptor(w2, b) EXCEPT !.log.unmapped = @ \cup {b}]

Unmap(w, b) ==
    LET w1 == IF w.m_fb_id[b] # 0
              THEN [w EXCEPT !.fbs = {f \in @ : f.id # w.m_fb_id[b]},
                             !.m_fb_id[b] = 0,
                             !.log.rmfb = @ + 1]
              ELSE w
        w2 == CloseHandles(w1, b, 0)
    IN  [ReleaseDescriptor(w2, b) EXCEPT !.log.unmapped = @ \cup {b}]

\* -------------------------------------------------------- Acquire, Release
\* buffer->Release(): drops one reference; log.liveDrops counts the drops made
\* while the buffer still has a framebuffer, a handle or its descriptor
DropReference(w, b) ==
    [w EXCEPT !.refs[b] = @ - 1,
              !.log.liveDrops = @ + (IF \/ w.m_fb_id[b] # 0
                                        \/ \E o \in PlaneIdx : w.m_handles[b][o] # 0
                                        \/ w.descRefs[b] # 0
                                     THEN 1 ELSE 0)]

\* Release that drops the reference first and unmaps afterwards
ReleaseBeforeUnmap(w, b) ==
    IF b = NULL THEN w
    ELSE LET w1 == DropReference(w, b)
         IN  Unmap(w1, b)

Release(w, b) ==
    IF b = NULL THEN w
    ELSE LET w1 == Unmap(w, b)
         IN  DropReference(w1, b)

\* Acquire that does not release the previous buffer
AcquireKeepsPrevious(w, b) ==
    LET w2 == [w EXCEPT !.m_prev_buffer = w.m_buffer]
        w3 == [w2 EXCEPT !.m_buffer = b]
    IN  [w3 EXCEPT !.refs[b] = @ + 1]

Acquire(w, b) ==
    LET w1 == Release(w, w.m_prev_buffer)
        w2 == [w1 EXCEPT !.m_prev_buffer = w1.m_buffer]
        w3 == [w2 EXCEPT !.m_buffer = b]
    IN  [w3 EXCEPT !.refs[b] = @ + 1]

\* ------------------------------------------------------------------ Map
\* what the external calls of one Map answer: fail is "none", or the call that
\* fails ("desc": AcquireDescriptor, "handle": drmPrimeFDToHandle of object
\* `at`, "addfb": drmModeAddFB2WithModifiers); id is the framebuffer id the
\* kernel hands out
Outcome(fail, at, id) == [fail |-> fail, at |-> at, id |-> id]

\* the prime-fd to GEM-handle loop of Map, from object `object` on
RECURSIVE ImportObjects(_, _, _, _, _)
ImportObjects(w, b, d, o, object) ==
    IF object >= nb_objects(d) THEN w
    ELSE IF o.fail = "handle" /\ o.at = object
         THEN [LogError(w) EXCEPT !.log.ret = FALSE]
         ELSE ImportObjects([w EXCEPT !.m_handles[b][object] = HandleOf(b, object),
                                      !.gem = @ \cup {HandleOf(b, object)}],
                            b, d, o, object + 1)

ZeroArray == [i \in PlaneIdx |-> 0]
NoLayout == [handles |-> ZeroArray, pitches |-> ZeroArray, offsets |-> ZeroArray,
             modifier |-> ZeroArray]

\* the inner loop of Map over the planes of layer `layer`, from `plane` on
RECURSIVE PlaneLoop(_, _, _, _, _, _)
PlaneLoop(a, w, b, d, layer, plane) ==
    LET layerDesc == d.layers[layer + 1]
    IN  IF plane >= nb_planes(layerDesc) THEN a
        ELSE LET planeDesc == layerDesc.planes[plane + 1]
                 objectDesc == d.objects[planeDesc.object_index + 1]
                 \* fix index for cases where there are multiple layers but one plane
                 p == IF nb_layers(d) > 1 /\ nb_planes(layerDesc) = 1
                      THEN layer ELSE plane
                 a1 == [a EXCEPT
                          !.handles[p] = w.m_handles[b][planeDesc.object_index],
                          !.pitches[p] = planeDesc.pitch,
                          !.offsets[p] = planeDesc.offset,
                          !.modifier[p] = objectDesc.format_modifier]
             IN  PlaneLoop(a1, w, b, d, layer, p + 1)

\* the outer loop of Map over the layers, from `layer` on
RECURSIVE LayerLoop(_, _, _, _, _)
LayerLoop(a, w, b, d, layer) ==
    IF layer >= nb_layers(d) THEN a
    ELSE LayerLoop(PlaneLoop(a, w, b, d, layer, 0), w, b, d, layer + 1)

\* the format inference without the 16-bit case
InferFormatNoP010(d) ==
    LET f0 == d.layers[1].format
        f1 == IF nb_layers(d) = 2
              THEN IF d.layers[1].format = "R8" /\ d.layers[2].format = "GR88"
                   THEN "NV12" ELSE f0
              ELSE f0
    IN  IF nb_layers(d) = 3
        THEN IF /\ d.layers[1].format = "R8"
                /\ d.layers[2].format = "R8"
                /\ d.layers[3].format = "R8"
             THEN "YUV420" ELSE f1
        ELSE f1

\* the format Map passes to drmModeAddFB2WithModifiers
InferFormat(d) ==
    LET f0 == d.layers[1].format
        f1 == IF nb_layers(d) = 2
              THEN LET g == IF d.layers[1].format = "R8" /\ d.layers[2].format = "GR88"
                            THEN "NV12" ELSE f0
                   IN  IF d.layers[1].format = "R16" /\ d.layers[2].format = "GR1616"
                       THEN "P010" ELSE g
              ELSE f0
    IN  IF nb_layers(d) = 3
        THEN IF /\ d.layers[1].format = "R8"
                /\ d.layers[2].format = "R8"
                /\ d.layers[3].format = "R8"
             THEN "YUV420" ELSE f1
        ELSE f1

\* the flags Map passes to drmModeAddFB2WithModifiers
\* the format modifiers an object can declare: linear, a vendor layout, invalid
Modifiers == {0, 1, DRM_FORMAT_MOD_INVALID}
\* the descriptor of one layer whose plane i lies in object i, the objects
\* having the modifiers ms
DescOfModifiers(ms) ==
    Desc([i \in 1..Len(ms) |-> Obj(ms[i])],
         <<Lay("R8", [i \in 1..Len(ms) |-> Pln(i - 1, 16, 0)])>>)
ModifierDescs ==
    {DescOfModifiers(ms) :
        ms \in UNION {[1..n -> Modifiers] : n \in 1..AV_DRM_MAX_PLANES}}

FbFlags(modifier) ==
    IF modifier[0] # 0 /\ modifier[0] # DRM_FORMAT_MOD_INVALID
    THEN DRM_MODE_FB_MODIFIERS ELSE 0

\* drmModeAddFB2WithModifiers and what follows it in Map
\* the end of Map that calls Acquire although the framebuffer was not created
AddFBAcquiresOnFailure(w, b, d, o) ==
    LET a == LayerLoop(NoLayout, w, b, d, 0)
        fb == [id |-> o.id, width |-> GetWidth(b), height |-> GetHeight(b),
               format |-> InferFormat(d), handles |-> a.handles,
               pitches |-> a.pitches, offsets |-> a.offsets,
               modifier |-> a.modifier, flags |-> FbFlags(a.modifier)]
        w1 == [w EXCEPT !.log.addfb = @ + 1]
    IN  IF o.fail = "addfb"
        THEN [Acquire(LogError(w1), b) EXCEPT !.log.ret = FALSE]
        ELSE Acquire([w1 EXCEPT !.m_fb_id[b] = o.id, !.fbs = @ \cup {fb},
                                !.log.ret = TRUE], b)

AddFB(w, b, d, o) ==
    LET a == LayerLoop(NoLayout, w, b, d, 0)
        fb == [id |-> o.id, width |-> GetWidth(b), height |-> GetHeight(b),
               format |-> InferFormat(d), handles |-> a.handles,
               pitches |-> a.pitches, offsets |-> a.offsets,
               modifier |-> a.modifier, flags |-> FbFlags(a.modifier)]
        w1 == [w EXCEPT !.log.addfb = @ + 1]
    IN  IF o.fail = "addfb"
        THEN [LogError(w1) EXCEPT !.log.ret = FALSE]
        ELSE Acquire([w1 EXCEPT !.m_fb_id[b] = o.id, !.fbs = @ \cup {fb},
                                !.log.ret = TRUE], b)

\* Map without the early return for a buffer that is imported already
MapAlways(w, b, d, o) ==
    IF o.fail = "desc" THEN [LogError(w) EXCEPT !.log.ret = FALSE]
    ELSE LET w1 == AcquireDescriptor(w, b)
             w2 == ImportObjects([w1 EXCEPT !.log.ret = TRUE], b, d, o, 0)
         IN  IF ~w2.log.ret THEN w2 ELSE AddFB(w2, b, d, o)

Map(w, b, d, o) ==
    IF w.m_fb_id[b] # 0 THEN [w EXCEPT !.log.ret = TRUE]
    ELSE IF o.fail = "desc" THEN [LogError(w) EXCEPT !.log.ret = FALSE]
    ELSE LET w1 == AcquireDescriptor(w, b)
             w2 == ImportObjects([w1 EXCEPT !.log.ret = TRUE], b, d, o, 0)
         IN  IF ~w2.log.ret THEN w2 ELSE AddFB(w2, b, d, o)

\* ------------------------------------------------- SetVideoPlane, Update
\* CRect of floats with integral values: x1, y1, Width(), Height()
Rect(x1, y1, width, height) == [x1 |-> x1, y1 |-> y1, width |-> width, height |-> height]

\* x & ~1 that clears nothing
KeepBit0(x) == x
\* x & ~1
ClearBit0(x) == x - (x % 2)
\* x << 16 of a uint32_t; the widths and heights of the model stay below 2^15,
\* where the shift does not wrap
ShiftLeft16(x) == x * Pow2(16)

\* SetVideoPlane that returns on a failed Map without Unmap
SetVideoPlaneKeepsImport(w, b, destRect, d, o) ==
    LET w1 == Map(w, b, d, o)
    IN  IF ~w1.log.ret THEN w1
        ELSE LET p1 == AddProperty(w1, "FB_ID", w1.m_fb_id[b])
                 p2 == AddProperty(p1, "CRTC_ID", GetCrtcId)
                 p3 == AddProperty(p2, "SRC_X", 0)
                 p4 == AddProperty(p3, "SRC_Y", 0)
                 p5 == AddProperty(p4, "SRC_W", ShiftLeft16(GetWidth(b)))
                 p6 == AddProperty(p5, "SRC_H", ShiftLeft16(GetHeight(b)))
                 p7 == AddProperty(p6, "CRTC_X", ClearBit0(destRect.x1))
                 p8 == AddProperty(p7, "CRTC_Y", ClearBit0(destRect.y1))
                 p9 == AddProperty(p8, "CRTC_W", ClearBit0(destRect.width + 1))
             IN  AddProperty(p9, "CRTC_H", ClearBit0(destRect.height + 1))

SetVideoPlane(w, b, destRect, d, o) ==
    LET w1 == Map(w, b, d, o)
    IN  IF ~w1.log.ret THEN Unmap(w1, b)
        ELSE LET p1 == AddProperty(w1, "FB_ID", w1.m_fb_id[b])
                 p2 == AddProperty(p1, "CRTC_ID", GetCrtcId)
                 p3 == AddProperty(p2, "SRC_X", 0)
                 p4 == AddProperty(p3, "SRC_Y", 0)
                 p5 == AddProperty(p4, "SRC_W", ShiftLeft16(GetWidth(b)))
                 p6 == AddProperty(p5, "SRC_H", ShiftLeft16(GetHeight(b)))
                 p7 == AddProperty(p6, "CRTC_X", ClearBit0(destRect.x1))
                 p8 == AddProperty(p7, "CRTC_Y", ClearBit0(destRect.y1))
                 p9 == AddProperty(p8, "CRTC_W", ClearBit0(destRect.width + 1))
             IN  AddProperty(p9, "CRTC_H", ClearBit0(destRect.height + 1))

\* UpdateVideoPlane that forgets m_prev_buffer without releasing it
UpdateVideoPlaneSkipsRelease(w) ==
    IF w.m_buffer = NULL \/ w.m_fb_id[w.m_buffer] = 0 THEN w
    ELSE LET w1 == w
             w2 == [w1 EXCEPT !.m_prev_buffer = NULL]
             w3 == AddProperty(w2, "FB_ID", w2.m_fb_id[w2.m_buffer])
         IN  AddProperty(w3, "CRTC_ID", GetCrtcId)

\* UpdateVideoPlane that leaves m_prev_buffer pointing at the released buffer
UpdateVideoPlaneKeepsPrevious(w) ==
    IF w.m_buffer = NULL \/ w.m_fb_id[w.m_buffer] = 0 THEN w
    ELSE LET w1 == Release(w, w.m_prev_buffer)
             w2 == w1
             w3 == AddProperty(w2, "FB_ID", w2.m_fb_id[w2.m_buffer])
         IN  AddProperty(w3, "CRTC_ID", GetCrtcId)

UpdateVideoPlane(w) ==
    IF w.m_buffer = NULL \/ w.m_fb_id[w.m_buffer] = 0 THEN w
    ELSE LET w1 == Release(w, w.m_prev_buffer)
             w2 == [w1 EXCEPT !.m_prev_buffer = NULL]
             w3 == AddProperty(w2, "FB_ID", w2.m_fb_id[w2.m_buffer])
         IN  AddProperty(w3, "CRTC_ID", GetCrtcId)

\* ------------------------------------------------------ Configure, Disable
\* AVRational and av_q2d-then-round: std::round(av_q2d(q) * k), stored in a
\* 16-bit field
Q(num, den) == [num |-> num, den |-> den]
RoundQ(q, k) == ((2 * q.num * k + q.den) \div (2 * q.den)) % Pow2(16)

\* what Configure reads of buffer->GetPicture(): the symbolic values of
\* GetColorEncoding, GetColorRange, GetColorimetry (as the property's enum
\* value), GetEOTF, GetMasteringDisplayMetadata and GetContentLightMetadata
\* (NULL when the picture has none)
Mdmd(hasP, hasL, maxL, minL) ==
    [has_primaries |-> hasP, has_luminance |-> hasL,
     display_primaries |-> <<<<Q(17, 25), Q(8, 25)>>, <<Q(53, 200), Q(69, 100)>>,
                             <<Q(3, 20), Q(3, 50)>>>>,
     white_point |-> <<Q(3127, 10000), Q(329, 1000)>>,
     max_luminance |-> maxL, min_luminance |-> minL]
Clmd(cll, fall) == [MaxCLL |-> cll, MaxFALL |-> fall]
Picture(enc, range, cs, eotf, mdmd, clmd) ==
    [colorEncoding |-> enc, colorRange |-> range, colorimetry |-> cs, eotf |-> eotf,
     mdmd |-> mdmd, clmd |-> clmd]

NoMeta == [none |-> TRUE]
PicSDR == Picture(1, 0, 0, 0, NoMeta, NoMeta)
PicHDR10 == Picture(2, 0, 9, 2, Mdmd(TRUE, TRUE, Q(1000, 1), Q(1, 20)), Clmd(1000, 400))
PicHDR10b == Picture(2, 0, 9, 2, Mdmd(FALSE, TRUE, Q(4000, 1), Q(1, 200)), NoMeta)
PicHLG == Picture(2, 1, 9, 3, NoMeta, NoMeta)
Pictures == {PicSDR, PicHDR10, PicHDR10b, PicHLG}

\* ids the kernel may give a property blob
BlobIds == 1..3

\* what the display answers during one Configure or Disable: whether there is
\* a video plane, whether the plane resolves COLOR_ENCODING / COLOR_RANGE,
\* whether the connector resolves the Colorspace value, whether the EDID
\* supports the colorimetry and the EOTF, whether the connector has
\* HDR_OUTPUT_METADATA, whether drmModeCreatePropertyBlob succeeds
Env == [plane : BOOLEAN, encFound : BOOLEAN, rangeFound : BOOLEAN,
        csFound : BOOLEAN, edidCs : BOOLEAN, hdrProp : BOOLEAN,
        edidEotf : BOOLEAN, blobOk : BOOLEAN]

ZeroMetadata ==
    [metadata_type |-> "none",
     hdmi_metadata_type1 |->
        [metadata_type |-> "none", eotf |-> 0,
         display_primaries |-> <<<<0, 0>>, <<0, 0>>, <<0, 0>>>>,
         white_point |-> <<0, 0>>,
         max_display_mastering_luminance |-> 0,
         min_display_mastering_luminance |-> 0,
         max_cll |-> 0, max_fall |-> 0]]

\* drmModeDestroyPropertyBlob(fd, m_hdr_blob_id) if set, then m_hdr_blob_id = 0
DestroyBlob(w) ==
    LET w1 == IF w.m_hdr_blob_id # 0
              THEN [w EXCEPT !.blobs = {x \in @ : x.id # w.m_hdr_blob_id},
                             !.log.destroyed =
                                 @ \cup {x \in w.blobs : x.id = w.m_hdr_blob_id}]
              ELSE w
    IN  [w1 EXCEPT !.m_hdr_blob_id = 0]

\* the blob id the kernel hands out next: the lowest free id
FreeBlobId(w) == CHOOSE id \in BlobIds :
                     /\ id \notin {x.id : x \in w.blobs}
                     /\ \A j \in 1..(id - 1) : j \in {x.id : x \in w.blobs}

\* drmModeCreatePropertyBlob(fd, &m_hdr_metadata, sizeof, &m_hdr_blob_id)
CreateBlob(w, e) ==
    IF e.blobOk
    THEN LET w1 == [w EXCEPT !.blobs = @ \cup {[id |-> FreeBlobId(w),
                                                 data |-> w.m_hdr_metadata]},
                             !.m_hdr_blob_id = FreeBlobId(w)]
         IN  [w1 EXCEPT !.log.peakBlobs = Max(@, Cardinality(w1.blobs))]
    ELSE w

\* the part of Configure that fills m_hdr_metadata from the picture
FillMetadata(m, picture) ==
    LET mdmd == picture.mdmd
        clmd == picture.clmd
        hasMdmd == "has_primaries" \in DOMAIN mdmd
        m1 == IF hasMdmd /\ mdmd.has_primaries
              THEN [m EXCEPT
                      !.display_primaries =
                          [i \in 1..3 |-> <<RoundQ(mdmd.display_primaries[i][1], 50000),
                                            RoundQ(mdmd.display_primaries[i][2], 50000)>>],
                      !.white_point = <<RoundQ(mdmd.white_point[1], 50000),
                                        RoundQ(mdmd.white_point[2], 50000)>>]
              ELSE m
        m2 == IF hasMdmd /\ mdmd.has_luminance
              THEN [m1 EXCEPT
                      !.max_display_mastering_luminance = RoundQ(mdmd.max_luminance, 1),
                      !.min_display_mastering_luminance = RoundQ(mdmd.min_luminance, 10000)]
              ELSE m1
    IN  IF "MaxCLL" \in DOMAIN clmd
        THEN [m2 EXCEPT !.max_cll = clmd.MaxCLL, !.max_fall = clmd.MaxFALL]
        ELSE m2

\* the HDR_OUTPUT_METADATA branch of Configure without the destruction of the
\* blob in use
ConfigureHdrKeepsBlob(w, picture, e) ==
    IF ~e.hdrProp THEN w
    ELSE LET w1 == [w EXCEPT !.m_hdr_metadata.metadata_type = "TYPE1",
                             !.m_hdr_metadata.hdmi_metadata_type1.metadata_type = "TYPE1"]
         IN  IF ~e.edidEotf THEN w1
             ELSE LET w2 == [w1 EXCEPT !.m_hdr_metadata.hdmi_metadata_type1.eotf =
                                           picture.eotf]
                      w3 == [w2 EXCEPT !.m_hdr_blob_id = 0]
                      w4 == [w3 EXCEPT !.m_hdr_metadata.hdmi_metadata_type1 =
                                           FillMetadata(@, picture)]
                      w5 == CreateBlob(w4, e)
                  IN  AddProperty(w5, "HDR_OUTPUT_METADATA", w5.m_hdr_blob_id)

\* the HDR_OUTPUT_METADATA branch of Configure
ConfigureHdr(w, picture, e) ==
    IF ~e.hdrProp THEN w
    ELSE LET w1 == [w EXCEPT !.m_hdr_metadata.metadata_type = "TYPE1",
                             !.m_hdr_metadata.hdmi_metadata_type1.metadata_type = "TYPE1"]
         IN  IF ~e.edidEotf THEN w1
             ELSE LET w2 == [w1 EXCEPT !.m_hdr_metadata.hdmi_metadata_type1.eotf =
                                           picture.eotf]
                      w3 == DestroyBlob(w2)
                      w4 == [w3 EXCEPT !.m_hdr_metadata.hdmi_metadata_type1 =
                                           FillMetadata(@, picture)]
                      w5 == CreateBlob(w4, e)
                  IN  AddProperty(w5, "HDR_OUTPUT_METADATA", w5.m_hdr_blob_id)

\* Configure that stages Colorspace without asking the EDID
ConfigureIgnoresEdid(w, picture, e) ==
    LET w1 == IF e.encFound THEN AddProperty(w, "COLOR_ENCODING", picture.colorEncoding)
              ELSE w
        w2 == IF e.rangeFound THEN AddProperty(w1, "COLOR_RANGE", picture.colorRange)
              ELSE w1
        w3 == IF e.csFound
              THEN SetActive(AddProperty(w2, "Colorspace", picture.colorimetry))
              ELSE w2
    IN  SetActive(ConfigureHdr(w3, picture, e))

Configure(w, picture, e) ==
    LET w1 == IF e.encFound THEN AddProperty(w, "COLOR_ENCODING", picture.colorEncoding)
              ELSE w
        w2 == IF e.rangeFound THEN AddProperty(w1, "COLOR_RANGE", picture.colorRange)
              ELSE w1
        w3 == IF e.csFound /\ e.edidCs
              THEN SetActive(AddProperty(w2, "Colorspace", picture.colorimetry))
              ELSE w2
    IN  SetActive(ConfigureHdr(w3, picture, e))

\* Disable that destroys the blob and leaves HDR_OUTPUT_METADATA as staged
DisableKeepsStaged(w, e) ==
    LET w1 == IF e.plane THEN AddProperty(AddProperty(w, "FB_ID", 0), "CRTC_ID", 0)
              ELSE w
        w2 == IF e.csFound THEN AddProperty(w1, "Colorspace", 0) ELSE w1
    IN  IF e.hdrProp
        THEN DestroyBlob(SetActive(w2))
        ELSE w2

Disable(w, e) ==
    LET w1 == IF e.plane THEN AddProperty(AddProperty(w, "FB_ID", 0), "CRTC_ID", 0)
              ELSE w
        w2 == IF e.csFound THEN AddProperty(w1, "Colorspace", 0) ELSE w1
    IN  IF e.hdrProp
        THEN DestroyBlob(SetActive(AddProperty(w2, "HDR_OUTPUT_METADATA", 0)))
        ELSE w2

\* ~CVideoLayerBridgeDRMPRIME
Destroy(w) == Release(Release(w, w.m_prev_buffer), w.m_buffer)

\* ================================================================ renderer
\* the video buffers the renderer is handed: two, of different pictures
RBuf == {1, 2}
Slots == 0..(NUM_BUFFERS - 1)

\* the renderer's world: its fields, the buffers' reference counts, the log
RWorld ==
    [m_configured |-> m_configured, m_buffers |-> m_buffers, m_config |-> m_config,
     refs |-> refs,
     log |-> [ret |-> TRUE, errors |-> 0, acquired |-> {}, released |-> {},
              fenceDestroyed |-> {}, fenceCreated |-> {}, texUnmapped |-> {},
              drew |-> FALSE, crashed |-> FALSE]]

RCommit(r) ==
    /\ m_configured' = r.m_configured
    /\ m_buffers' = r.m_buffers
    /\ m_config' = r.m_config
    /\ refs' = r.refs
    /\ log' = r.log

\* VideoPicture as the renderer reads it
VideoPicture(b, w, h, space, prim, range, bits, fmt) ==
    [videoBuffer |-> b, iWidth |-> w, iHeight |-> h, color_space |-> space,
     color_primaries |-> prim, color_range |-> range, colorBits |-> bits,
     format |-> fmt]
\* HD and SD pictures that leave the colour space unspecified, and the boundary
\* of the size heuristic
PicturesOf(b) ==
    {VideoPicture(b, 1920, 1080, "UNSPECIFIED", "BT709", 0, 8, "DRM_PRIME"),
     VideoPicture(b, 1024, 576, "UNSPECIFIED", "BT2020", 1, 10, "DRM_PRIME2")}

\* the picture that carries buffer b where each buffer has one
PictureOf(b) ==
    IF b % 2 = 1
    THEN VideoPicture(b, 1920, 1080, "UNSPECIFIED", "BT709", 0, 8, "DRM_PRIME")
    ELSE VideoPicture(b, 1024, 576, "UNSPECIFIED", "BT2020", 1, 10, "DRM_PRIME2")

\* BUFFER: videoBuffer, texture (the buffer it maps, NULL if unmapped), fence
\* (hasFence: the unique_ptr is set; fence: the sync object's state)
EmptySlot ==
    [videoBuffer |-> NULL, texture |-> NULL, hasFence |-> FALSE, fence |-> "none",
     m_srcPrimaries |-> "UNSPECIFIED", m_srcColSpace |-> "UNSPECIFIED",
     m_srcFullRange |-> FALSE, m_srcBits |-> 8]

\* CEGLFence::DestroyFence, CreateFence, IsSignaled
DestroyFence(r, i) ==
    [r EXCEPT !.m_buffers[i].fence = "none", !.log.fenceDestroyed = @ \cup {i}]
CreateFence(r, i) ==
    [r EXCEPT !.m_buffers[i].fence = "unsignaled", !.log.fenceCreated = @ \cup {i}]
IsSignaled(f) == f # "unsignaled"

\* CDRMPRIMETexture::Unmap, Map
TextureUnmap(r, i) ==
    [r EXCEPT !.m_buffers[i].texture = NULL, !.log.texUnmapped = @ \cup {i}]
TextureMap(r, i, b, ok) ==
    IF r.m_buffers[i].texture # NULL THEN [r EXCEPT !.log.ret = TRUE]
    ELSE IF ok THEN [r EXCEPT !.m_buffers[i].texture = b, !.log.ret = TRUE]
    ELSE [r EXCEPT !.log.ret = FALSE]

\* buf.videoBuffer->Release() / Acquire()
RRelease(r, b) == [r EXCEPT !.refs[b] = @ - 1, !.log.released = @ \cup {b}]
RAcquire(r, b) == [r EXCEPT !.refs[b] = @ + 1, !.log.acquired = @ \cup {b}]

\* AddVideoPicture that does not release the buffer it finds in the slot
AddVideoPictureKeepsOld(r, picture, index) ==
    LET buf == r.m_buffers[index]
        r1 == IF buf.videoBuffer # NULL
              THEN LET e1 == [r EXCEPT !.log.errors = @ + 1]
                       e2 == IF buf.hasFence THEN DestroyFence(e1, index) ELSE e1
                   IN  TextureUnmap(e2, index)
              ELSE r
        r2 == RAcquire([r1 EXCEPT !.m_buffers[index].videoBuffer = picture.videoBuffer],
                       picture.videoBuffer)
        space == IF picture.color_space = "UNSPECIFIED"
                 THEN IF picture.iWidth > 1024 \/ picture.iHeight >= 600
                      THEN "BT709" ELSE "BT470BG"
                 ELSE picture.color_space
    IN  [r2 EXCEPT !.m_buffers[index].m_srcPrimaries = picture.color_primaries,
                   !.m_buffers[index].m_srcColSpace = space,
                   !.m_buffers[index].m_srcFullRange = (picture.color_range = 1),
                   !.m_buffers[index].m_srcBits = picture.colorBits]

AddVideoPicture(r, picture, index) ==
    LET buf == r.m_buffers[index]
        r1 == IF buf.videoBuffer # NULL
              THEN LET e1 == [r EXCEPT !.log.errors = @ + 1]
                       e2 == IF buf.hasFence THEN DestroyFence(e1, index) ELSE e1
                       e3 == TextureUnmap(e2, index)
                   IN  RRelease(e3, buf.videoBuffer)
              ELSE r
        r2 == RAcquire([r1 EXCEPT !.m_buffers[index].videoBuffer = picture.videoBuffer],
                       picture.videoBuffer)
        space == IF picture.color_space = "UNSPECIFIED"
                 THEN IF picture.iWidth > 1024 \/ picture.iHeight >= 600
                      THEN "BT709" ELSE "BT470BG"
                 ELSE picture.color_space
    IN  [r2 EXCEPT !.m_buffers[index].m_srcPrimaries = picture.color_primaries,
                   !.m_buffers[index].m_srcColSpace = space,
                   !.m_buffers[index].m_srcFullRange = (picture.color_range = 1),
                   !.m_buffers[index].m_srcBits = picture.colorBits]

\* ReleaseBuffer that releases the buffer and leaves the pointer in the slot
ReleaseBufferKeepsPointer(r, index) ==
    LET buf == r.m_buffers[index]
        r1 == IF buf.hasFence THEN DestroyFence(r, index) ELSE r
        r2 == TextureUnmap(r1, index)
    IN  IF buf.videoBuffer # NULL
        THEN RRelease(r2, buf.videoBuffer)
        ELSE r2

\* ReleaseBuffer that also destroys the fence of the next slot
ReleaseBufferTouchesNext(r, index) ==
    LET buf == r.m_buffers[index]
        r1 == IF buf.hasFence THEN DestroyFence(r, index) ELSE r
        r2 == TextureUnmap(r1, index)
        r3 == IF buf.videoBuffer # NULL
              THEN [RRelease(r2, buf.videoBuffer)
                      EXCEPT !.m_buffers[index].videoBuffer = NULL]
              ELSE r2
        next == (index + 1) % NUM_BUFFERS
    IN  IF r3.m_buffers[next].hasFence THEN DestroyFence(r3, next) ELSE r3

\* ReleaseBuffer that empties the slot without releasing its buffer
ReleaseBufferKeepsReference(r, index) ==
    LET buf == r.m_buffers[index]
        r1 == IF buf.hasFence THEN DestroyFence(r, index) ELSE r
        r2 == TextureUnmap(r1, index)
    IN  IF buf.videoBuffer # NULL
        THEN [r2 EXCEPT !.m_buffers[index].videoBuffer = NULL]
        ELSE r2

ReleaseBuffer(r, index) ==
    LET buf == r.m_buffers[index]
        r1 == IF buf.hasFence THEN DestroyFence(r, index) ELSE r
        r2 == TextureUnmap(r1, index)
    IN  IF buf.videoBuffer # NULL
        THEN [RRelease(r2, buf.videoBuffer) EXCEPT !.m_buffers[index].videoBuffer = NULL]
        ELSE r2

RECURSIVE FlushLoop(_, _)
FlushLoop(r, i) ==
    IF i >= NUM_BUFFERS THEN r ELSE FlushLoop(ReleaseBuffer(r, i), i + 1)

\* Flush that also resets m_configured
FlushUnconfigures(r, saveBuffers) ==
    LET r1 == IF ~saveBuffers THEN FlushLoop(r, 0) ELSE r
    IN  [r1 EXCEPT !.log.ret = saveBuffers,
                   !.m_configured = IF saveBuffers THEN @ ELSE FALSE]

Flush(r, saveBuffers) ==
    LET r1 == IF ~saveBuffers THEN FlushLoop(r, 0) ELSE r
    IN  [r1 EXCEPT !.log.ret = saveBuffers]

\* the loop of Configure that gives every slot its texture and fence objects
InitSlots(r) ==
    [r EXCEPT !.m_buffers = [i \in Slots |->
                                IF ~@[i].hasFence THEN [@[i] EXCEPT !.hasFence = TRUE]
                                ELSE @[i]]]

\* Configure of the renderer; winSystem: CServiceBroker::GetWinSystem() gives
\* a CWinSystemEGL
RendererConfigure(r, picture, orientation, winSystem) ==
    LET r1 == [r EXCEPT !.m_config = [m_format |-> picture.format,
                                       m_sourceWidth |-> picture.iWidth,
                                       m_sourceHeight |-> picture.iHeight,
                                       m_renderOrientation |-> orientation,
                                       m_iFlags |-> <<picture.color_space,
                                                      picture.color_primaries>>]]
        r2 == Flush(r1, FALSE)
    IN  IF ~winSystem THEN [r2 EXCEPT !.log.ret = FALSE]
        ELSE [InitSlots(r2) EXCEPT !.m_configured = TRUE, !.log.ret = TRUE]

\* what RenderUpdate meets: the buffer IsValid, texture.Map succeeds, the
\* render system is a CRenderSystemGLES
RenderEnv == [valid : BOOLEAN, mapOk : BOOLEAN, renderSystem : BOOLEAN]

RenderUpdate(r, index, e) ==
    IF ~r.m_configured THEN r
    ELSE LET buffer == r.m_buffers[index].videoBuffer
         IN  IF buffer = NULL \/ ~e.valid THEN r
             ELSE LET r1 == TextureMap(r, index, buffer, e.mapOk)
                  IN  IF ~r1.log.ret THEN r1
                      ELSE IF ~e.renderSystem THEN r1
                      ELSE CreateFence([r1 EXCEPT !.log.drew = TRUE], index)

\* ~CRendererDRMPRIMEGLES
RendererDestroy(r) == Flush(r, FALSE)

\* NeedBuffer without the negation
NeedBufferWhenSignaled(bufs, index) == IsSignaled(bufs[index].fence)

\* NeedBuffer: defined when the slot has a fence object
NeedBuffer(bufs, index) == ~IsSignaled(bufs[index].fence)

\* the GPU finishes the commands before the fence of slot index
SignalFence(r, index) == [r EXCEPT !.m_buffers[index].fence = "signaled"]

\* ================================================================= actions
NoCall == [op |-> "none"]
NoSnap == [none |-> TRUE]

\* the state after construction; the caller's destination rectangle is destRect
InitWith(destRect, d) ==
    /\ m_buffer = NULL
    /\ m_prev_buffer = NULL
    /\ m_hdr_blob_id = 0
    /\ m_hdr_metadata = ZeroMetadata
    /\ m_fb_id = [b \in Buf |-> 0]
    /\ m_handles = [b \in Buf |-> ZeroArray]
    /\ refs = [b \in Buf |-> 0]
    /\ descRefs = [b \in Buf |-> 0]
    /\ fbs = {}
    /\ gem = {}
    /\ blobs = {}
    /\ props = [n \in PropNames |-> Unset]
    /\ m_configured = FALSE
    /\ m_buffers = [i \in Slots |-> EmptySlot]
    /\ m_config = [m_format |-> "NONE", m_sourceWidth |-> 0, m_sourceHeight |-> 0,
                   m_renderOrientation |-> 0, m_iFlags |-> <<>>]
    /\ log = World.log
    /\ last = NoCall
    /\ shown = NULL
    /\ alive = TRUE
    /\ run = <<>>
    /\ snap = NoSnap
    /\ input = [destRect |-> destRect, desc |-> d]

\* the framebuffer id the kernel hands out next: its idr gives the lowest free id
FreeFbId == CHOOSE id \in 1..(NBuf + 1) :
                /\ id \notin {f.id : f \in fbs}
                /\ \A j \in 1..(id - 1) : j \in {f.id : f \in fbs}
\* the inputs of Map(b) that can differ in effect: one when b is imported
\* already (Map returns at once), one when AcquireDescriptor fails, else a
\* descriptor of ds with the answers of the libdrm calls
MapInputs(b, ds) ==
    IF m_fb_id[b] # 0 THEN {<<DescNV12, Outcome("none", 0, FreeFbId)>>}
    ELSE {<<DescNV12, Outcome("desc", 0, 0)>>}
         \cup {<<d, Outcome("none", 0, FreeFbId)>> : d \in ds}
         \cup {<<d, Outcome("addfb", 0, 0)>> : d \in ds}
         \cup UNION {{<<d, Outcome("handle", k, 0)>> : k \in 0..(nb_objects(d) - 1)} :
                     d \in ds}

\* ------------------------------------------------- bridge, public methods
CallSetVideoPlane(b, d, o) ==
    /\ alive /\ run = <<>>
    /\ LET w == SetVideoPlane(World, b, input.destRect, d, o)
       IN  /\ Commit(w)
           /\ shown' = IF w.log.ret THEN b ELSE shown
    /\ last' = [op |-> "SetVideoPlane", buf |-> b,
                again |-> (/\ last.op = "SetVideoPlane"
                           /\ last.buf = b
                           /\ log.ret
                           /\ log.addfb = 1)]
    /\ UNCHANGED <<rendererVars, alive, run, snap, input>>

CallUpdateVideoPlane ==
    /\ alive /\ run = <<>>
    /\ Commit(UpdateVideoPlane(World))
    /\ last' = [op |-> "UpdateVideoPlane"]
    /\ UNCHANGED <<rendererVars, shown, alive, run, snap, input>>

CallConfigure(picture, e) ==
    /\ alive /\ run = <<>>
    /\ Commit(Configure(World, picture, e))
    /\ last' = [op |-> "Configure", picture |-> picture, env |-> e]
    /\ UNCHANGED <<rendererVars, shown, alive, run, snap, input>>

CallDisable(e) ==
    /\ alive /\ run = <<>>
    /\ Commit(Disable(World, e))
    /\ last' = [op |-> "Disable"]
    /\ UNCHANGED <<rendererVars, shown, alive, run, snap, input>>

CallDestroy ==
    /\ alive /\ run = <<>>
    /\ Commit(Destroy(World))
    /\ last' = [op |-> "Destroy"]
    /\ alive' = FALSE
    /\ UNCHANGED <<rendererVars, shown, run, snap, input>>

\* a SetVideoPlane(b) that reaches Acquire(b): b is not imported and every
\* libdrm call succeeds.  run lists the buffers of such calls made in a row,
\* snap keeps the state before the first of them
CallAcquire(b) ==
    /\ alive /\ Len(run) < 3
    /\ m_fb_id[b] = 0
    /\ Commit(SetVideoPlane(World, b, input.destRect, DescOf(b),
                            Outcome("none", 0, FreeFbId)))
    /\ shown' = b
    /\ last' = [op |-> "SetVideoPlane", buf |-> b, again |-> FALSE]
    /\ run' = Append(run, b)
    /\ snap' = IF run = <<>>
               THEN [refs |-> refs, m_buffer |-> m_buffer,
                     m_prev_buffer |-> m_prev_buffer]
               ELSE snap
    /\ UNCHANGED <<rendererVars, alive, input>>

\* ----------------------------------------------- renderer, public methods
CallRendererConfigure(picture, orientation, winSystem) ==
    /\ alive
    /\ RCommit(RendererConfigure(RWorld, picture, orientation, winSystem))
    /\ last' = [op |-> "Configure", index |-> -1, buf |-> picture.videoBuffer]
    /\ UNCHANGED <<m_buffer, m_prev_buffer, m_hdr_blob_id, m_hdr_metadata, m_fb_id,
                   m_handles, descRefs, fbs, gem, blobs, props, shown, alive, run,
                   snap, input>>

CallAddVideoPicture(picture, index) ==
    /\ alive
    /\ RCommit(AddVideoPicture(RWorld, picture, index))
    /\ last' = [op |-> "AddVideoPicture", index |-> index, buf |-> picture.videoBuffer]
    /\ UNCHANGED <<m_buffer, m_prev_buffer, m_hdr_blob_id, m_hdr_metadata, m_fb_id,
                   m_handles, descRefs, fbs, gem, blobs, props, shown, alive, run,
                   snap, input>>

CallFlush(saveBuffers) ==
    /\ alive
    /\ RCommit(Flush(RWorld, saveBuffers))
    /\ last' = [op |-> "Flush", index |-> -1, buf |-> NULL, save |-> saveBuffers]
    /\ UNCHANGED <<m_buffer, m_prev_buffer, m_hdr_blob_id, m_hdr_metadata, m_fb_id,
                   m_handles, descRefs, fbs, gem, blobs, props, shown, alive, run,
                   snap, input>>

CallReleaseBuffer(index) ==
    /\ alive
    /\ RCommit(ReleaseBuffer(RWorld, index))
    /\ last' = [op |-> "ReleaseBuffer", index |-> index, buf |-> NULL]
    /\ UNCHANGED <<m_buffer, m_prev_buffer, m_hdr_blob_id, m_hdr_metadata, m_fb_id,
                   m_handles, descRefs, fbs, gem, blobs, props, shown, alive, run,
                   snap, input>>

CallRenderUpdate(index, e) ==
    /\ alive
    /\ RCommit(RenderUpdate(RWorld, index, e))
    /\ last' = [op |-> "RenderUpdate", index |-> index, buf |-> NULL]
    /\ UNCHANGED <<m_buffer, m_prev_buffer, m_hdr_blob_id, m_hdr_metadata, m_fb_id,
                   m_handles, descRefs, fbs, gem, blobs, props, shown, alive, run,
                   snap, input>>

CallRendererDestroy ==
    /\ alive
    /\ RCommit(RendererDestroy(RWorld))
    /\ last' = [op |-> "Destroy", index |-> -1, buf |-> NULL]
    /\ alive' = FALSE
    /\ UNCHANGED <<m_buffer, m_prev_buffer, m_hdr_blob_id, m_hdr_metadata, m_fb_id,
                   m_handles, descRefs, fbs, gem, blobs, props, shown, run, snap,
                   input>>

\* NeedBuffer(index). m_buffers[index].fence->IsSignaled() on a null
\* std::unique_ptr is undefined: the call may end the process or return either
\* answer
NeedBufferOutcomes(bufs, index) ==
    IF bufs[index].hasFence
    THEN {[crashed |-> FALSE, ret |-> NeedBuffer(bufs, index)]}
    ELSE {[crashed |-> TRUE, ret |-> FALSE]}
         \cup {[crashed |-> FALSE, ret |-> x] : x \in BOOLEAN}

CallNeedBuffer(index) ==
    /\ alive
    /\ \E o \in NeedBufferOutcomes(m_buffers, index) :
          /\ RCommit([RWorld EXCEPT !.log.ret = o.ret, !.log.crashed = o.crashed])
          /\ alive' = ~o.crashed
    /\ last' = [op |-> "NeedBuffer", index |-> index, buf |-> NULL]
    /\ UNCHANGED <<m_buffer, m_prev_buffer, m_hdr_blob_id, m_hdr_metadata, m_fb_id,
                   m_handles, descRefs, fbs, gem, blobs, props, shown, run, snap,
                   input>>

\* the GPU passes the fence of slot index: an event, not a call
FenceSignaled(index) ==
    /\ alive
    /\ m_buffers[index].fence = "unsignaled"
    /\ RCommit(SignalFence(RWorld, index))
    /\ last' = [op |-> "FenceSignaled", index |-> index, buf |-> NULL]
    /\ UNCHANGED <<m_buffer, m_prev_buffer, m_hdr_blob_id, m_hdr_metadata, m_fb_id,
                   m_handles, descRefs, fbs, gem, blobs, props, shown, alive, run,
                   snap, input>>

\* two buffers of different width and height
TwoBufs == {1, 2}
\* a small destination rectangle
Rects == {Rect(1, MaxCoord, MaxCoord, 1)}
\* every small destination rectangle, and the one of 639 x 359 at (101, 50)
RectsWide ==
    {Rect(x1, y1, width, height) : x1 \in 0..MaxCoord, y1 \in 0..MaxCoord,
                                   width \in 0..MaxCoord, height \in 0..MaxCoord}
    \cup {Rect(101, 50, 639, 359)}
\* a display with every capability
EnvAll == [plane |-> TRUE, encFound |-> TRUE, rangeFound |-> TRUE, csFound |-> TRUE,
           edidCs |-> TRUE, hdrProp |-> TRUE, edidEotf |-> TRUE, blobOk |-> TRUE]
\* displays that differ in what they support of colorimetry and HDR
DisplayEnvs == {e \in Env : /\ e.plane /\ e.encFound /\ e.rangeFound
                            /\ e.edidCs = e.csFound}

\* ------------------------------------------------------------------ Spec
\* the bridge with its buffers: every public method, on a display with every
\* capability
Init == \E destRect \in Rects : InitWith(destRect, NoMeta)

Next ==
    \/ \E b \in Buf : \E i \in MapInputs(b, {DescOf(b)}) :
          CallSetVideoPlane(b, i[1], i[2])
    \/ CallUpdateVideoPlane
    \/ CallConfigure(PicHDR10, EnvAll)
    \/ CallDisable(EnvAll)
    \/ CallDestroy

Spec == Init /\ [][Next]_vars

\* ------------------------------------------------------------- SpecStage
\* SetVideoPlane only, with every answer of the libdrm calls
NextStage ==
    \E b \in Buf : \E i \in MapInputs(b, {DescOf(b)}) : CallSetVideoPlane(b, i[1], i[2])

SpecStage == Init /\ [][NextStage]_vars

\* ----------------------------------------------------------- SpecAcquire
\* any calls of SetVideoPlane and UpdateVideoPlane, then three calls in a row
\* that reach Acquire
NextAcquire ==
    \/ \E b \in Buf : \E i \in MapInputs(b, {DescOf(b)}) :
          CallSetVideoPlane(b, i[1], i[2])
    \/ CallUpdateVideoPlane
    \/ \E b \in Buf : CallAcquire(b)

SpecAcquire == Init /\ [][NextAcquire]_vars

\* C1: after Acquire(b1), Acquire(b2), Acquire(b3) the bridge holds b3 as
\* current and b2 as previous and references to these two only; b1 has the
\* reference count it had before the three calls, and it still had the
\* reference of its Acquire after the second call
AcquireThreeKeepsTwo ==
    /\ Len(run) = 2 => refs[run[1]] = snap.refs[run[1]] + 1
    /\ Len(run) = 3 =>
          /\ Cardinality({run[1], run[2], run[3]}) = 3
          /\ m_buffer = run[3]
          /\ m_prev_buffer = run[2]
          /\ \A b \in Buf : refs[b] = IF b \in {run[2], run[3]} THEN 1 ELSE 0
          /\ refs[run[1]] = snap.refs[run[1]]

\* three Acquire in a row have run, from a state where the bridge held a
\* current and a previous buffer
AcquireThreeDone ==
    /\ Len(run) = 3
    /\ snap.m_buffer # NULL
    /\ snap.m_prev_buffer # NULL

\* ----------------------------------------------------------- SpecDisplay
\* Configure and Disable, over pictures and displays
NextDisplay ==
    \/ \E picture \in Pictures, e \in DisplayEnvs : CallConfigure(picture, e)
    \/ \E e \in DisplayEnvs : CallDisable(e)

SpecDisplay == Init /\ [][NextDisplay]_vars

\* C6: at most one HDR metadata blob is live, also within a call: Configure
\* destroys the blob in use before it creates the next one
OneLiveBlob ==
    /\ Cardinality(blobs) <= 1
    /\ log.peakBlobs <= 1
    /\ blobs = {x \in blobs : x.id = m_hdr_blob_id}

\* Configure has replaced a blob by one of a different mastering luminance
BlobReplaced ==
    /\ last.op = "Configure"
    /\ \E x \in log.destroyed, y \in blobs :
          /\ y.id = m_hdr_blob_id
          /\ x.data.hdmi_metadata_type1.max_display_mastering_luminance
               # y.data.hdmi_metadata_type1.max_display_mastering_luminance

\* -------------------------------------------------------------- SpecRect
\* SetVideoPlane with each destination rectangle
InitRect == \E destRect \in RectsWide : InitWith(destRect, NoMeta)

NextRect ==
    \E b \in TwoBufs : \E i \in MapInputs(b, {DescOf(b)}) :
        CallSetVideoPlane(b, i[1], i[2])

SpecRect == InitRect /\ [][NextRect]_vars

\* the largest even integer <= x and the smallest even integer >= x
EvenBelow(x) == CHOOSE e \in (x - 1)..x : e % 2 = 0
EvenAbove(x) == CHOOSE e \in x..(x + 1) : e % 2 = 0

\* C9: a successful SetVideoPlane stages the destination rectangle with x1
\* and y1 rounded down and width and height rounded up to even integers, so
\* (101, 50, 639, 359) as (100, 50, 640, 360), and the source rectangle
\* (0, 0, width * 65536, height * 65536) of the buffer
DestRectEven ==
    (last.op = "SetVideoPlane" /\ log.ret) =>
        /\ props["CRTC_X"] = EvenBelow(input.destRect.x1)
        /\ props["CRTC_Y"] = EvenBelow(input.destRect.y1)
        /\ props["CRTC_W"] = EvenAbove(input.destRect.width)
        /\ props["CRTC_H"] = EvenAbove(input.destRect.height)
        /\ input.destRect = Rect(101, 50, 639, 359) =>
              /\ props["CRTC_X"] = 100
              /\ props["CRTC_Y"] = 50
              /\ props["CRTC_W"] = 640
              /\ props["CRTC_H"] = 360
        /\ props["SRC_X"] = 0
        /\ props["SRC_Y"] = 0
        /\ props["SRC_W"] = GetWidth(last.buf) * 65536
        /\ props["SRC_H"] = GetHeight(last.buf) * 65536

\* the rectangle of 639 x 359 at (101, 50) has been staged
DestRectStaged ==
    /\ last.op = "SetVideoPlane"
    /\ log.ret
    /\ input.destRect = Rect(101, 50, 639, 359)
    /\ "CRTC_W" \in log.staged

\* ------------------------------------------------------------ SpecFormat
\* SetVideoPlane of buffers whose descriptor has each combination of layer
\* formats
InitFormat == \E d \in FormatDescs : InitWith(Rect(1, MaxCoord, MaxCoord, 1), d)

NextFormat ==
    \E b \in TwoBufs : \E i \in MapInputs(b, {input.desc}) :
        CallSetVideoPlane(b, i[1], i[2])

SpecFormat == InitFormat /\ [][NextFormat]_vars

\* the formats of the layers of d, in order
FormatsOf(d) == [i \in 1..nb_layers(d) |-> d.layers[i].format]

\* C10: the framebuffer format is NV12 for the layers (R8, GR88), P010 for
\* (R16, GR1616), YUV420 for (R8, R8, R8), and the format of layer 0 for
\* every other descriptor
FormatInferred ==
    \A f \in fbs :
        f.format = CASE FormatsOf(input.desc) = <<"R8", "GR88">> -> "NV12"
                     [] FormatsOf(input.desc) = <<"R16", "GR1616">> -> "P010"
                     [] FormatsOf(input.desc) = <<"R8", "R8", "R8">> -> "YUV420"
                     [] OTHER -> FormatsOf(input.desc)[1]

\* a framebuffer was created for the layers (R16, GR1616)
FormatP010Created ==
    /\ FormatsOf(input.desc) = <<"R16", "GR1616">>
    /\ \E f \in fbs : f.id = props["FB_ID"] /\ f.format = "P010"

\* ---------------------------------------------------------- SpecRenderer
\* the renderer with its ring of slots: its public methods and the fence
\* events of the GPU
NextRenderer ==
    \/ \E b \in RBuf, winSystem \in BOOLEAN :
          CallRendererConfigure(PictureOf(b), 0, winSystem)
    \/ \E b \in RBuf, index \in Slots : CallAddVideoPicture(PictureOf(b), index)
    \/ \E saveBuffers \in BOOLEAN : CallFlush(saveBuffers)
    \/ \E index \in Slots : CallReleaseBuffer(index)
    \/ \E index \in Slots, e \in RenderEnv : CallRenderUpdate(index, e)
    \/ \E index \in Slots : FenceSignaled(index)
    \/ CallRendererDestroy

SpecRenderer == Init /\ [][NextRenderer]_vars

\* the step is a call of RenderUpdate(i) that creates a fence
RenderCreatesFence(i) ==
    /\ last'.op = "RenderUpdate"
    /\ last'.index = i
    /\ i \in log'.fenceCreated

\* the step is a call on slot i or on all slots, or the fence event of slot i
TouchesSlot(i) == last'.index \in {i, -1}

FlushUnconfiguresRenderer ==
    (last.op = "Flush" /\ ~log.ret) => ~m_configured

\* every slot is empty: no buffer, no texture mapping, no fence
AllSlotsEmpty ==
    \A i \in Slots : /\ m_buffers[i].videoBuffer = NULL
                      /\ m_buffers[i].texture = NULL
                      /\ m_buffers[i].fence = "none"

\* C11 as the code has it: m_configured becomes true by a Configure that
\* succeeds and is never reset; a Flush(false) and the destructor release all
\* slots and leave the flag as it was
ConfiguredStays ==
    [][/\ m_configured => m_configured'
       /\ m_configured' # m_configured => (last'.op = "Configure" /\ log'.ret)
       /\ (last'.op = "Configure" /\ log'.ret) => m_configured'
       /\ ((last'.op = "Flush" /\ ~log'.ret) \/ last'.op = "Destroy")
             => (AllSlotsEmpty' /\ m_configured' = m_configured)]_vars

\* a Flush(false) has released the buffers of a configured renderer
FlushedWhileConfigured ==
    /\ last.op = "Flush"
    /\ ~log.ret
    /\ log.released # {}
    /\ log.fenceDestroyed = Slots
    /\ m_configured

\* the number of slots of bufs that hold buffer b
SlotCount(bufs, b) == Cardinality({i \in Slots : bufs[i].videoBuffer = b})

\* C12: a Configure that fails leaves the buffers of the slots,
\* the reference counts, the stored configuration and m_configured as they were
FailedConfigureChangesNothing ==
    [][(last'.op = "Configure" /\ ~log'.ret)
       => (/\ \A i \in Slots : m_buffers'[i].videoBuffer = m_buffers[i].videoBuffer
           /\ refs' = refs
           /\ m_config' = m_config
           /\ m_configured' = m_configured)]_vars

\* a Configure has failed on a configured renderer whose slots held buffers:
\* the call has released them and destroyed the fences
ConfigureFailedWithBuffers ==
    /\ last.op = "Configure"
    /\ ~log.ret
    /\ m_configured
    /\ log.released = RBuf
    /\ log.fenceDestroyed = Slots

\* how many of the bridge's two fields m_buffer and m_prev_buffer point to b
HeldByBridge(b) ==
    (IF m_buffer = b THEN 1 ELSE 0) + (IF m_prev_buffer = b THEN 1 ELSE 0)

\* C13: while the bridge lives, the references it holds on a buffer are as many
\* as the fields m_buffer and m_prev_buffer that point to it; once the bridge
\* is destroyed it holds none
BridgeRefsConserved ==
    \A b \in Buf : refs[b] = IF alive THEN HeldByBridge(b) ELSE 0

\* the bridge is destroyed while it held a current and a previous buffer, and
\* has released both
BridgeDestroyedHoldingTwo ==
    /\ last.op = "Destroy"
    /\ ~alive
    /\ m_buffer # NULL
    /\ m_prev_buffer # NULL
    /\ log.rel = 2

\* C14: the references the renderer holds on a buffer are as many as the slots
\* that hold it; after Flush(false), after Configure and after the destructor
\* every slot is empty and the renderer holds no reference
RendererRefsConserved ==
    /\ \A b \in RBuf : refs[b] = SlotCount(m_buffers, b)
    /\ (\/ last.op = "Flush" /\ ~log.ret
        \/ last.op = "Configure"
        \/ last.op = "Destroy")
          => /\ \A i \in Slots : m_buffers[i].videoBuffer = NULL
             /\ \A b \in RBuf : refs[b] = 0

\* the renderer is destroyed while every slot held a buffer, and has released
\* both buffers
RendererDestroyedWithBuffers ==
    /\ last.op = "Destroy"
    /\ ~alive
    /\ log.released = RBuf
    /\ \A b \in RBuf : refs[b] = 0

\* every buffer is mapped from one descriptor, of any assignment of modifiers to
\* its one to four objects
InitModifier ==
    \E d \in ModifierDescs : InitWith(Rect(1, MaxCoord, MaxCoord, 1), d)

SpecModifier == InitModifier /\ [][NextFormat]_vars

\* some object of descriptor d declares a layout other than linear or invalid
AnyModifier(d) ==
    \E o \in 1..nb_objects(d) :
        /\ d.objects[o].format_modifier # 0
        /\ d.objects[o].format_modifier # DRM_FORMAT_MOD_INVALID

\* C15: a framebuffer is created with DRM_MODE_FB_MODIFIERS if some object of
\* its descriptor declares a modifier, and with no flag if none does
ModifierFlagFollowsObjects ==
    \A f \in fbs :
        f.flags = IF AnyModifier(input.desc) THEN DRM_MODE_FB_MODIFIERS ELSE 0

\* a framebuffer was created on the legacy path from a descriptor whose first
\* object is linear and whose second object declares a vendor layout
LegacyPathDespiteModifier ==
    /\ last.op = "SetVideoPlane"
    /\ log.ret
    /\ log.addfb = 1
    /\ nb_objects(input.desc) >= 2
    /\ input.desc.objects[1].format_modifier = 0
    /\ input.desc.objects[2].format_modifier = 1
    /\ \E f \in fbs : f.id = m_fb_id[last.buf] /\ f.flags = 0

\* C20: AddVideoPicture, RenderUpdate and ReleaseBuffer of slot i, and the
\* signal of the fence of slot i, leave every other slot as it was (buffer,
\* texture, fence, colour parameters) and change the reference count of no
\* buffer but the one slot i held and the one it holds now
SlotsIndependent ==
    [][(last'.op \in {"AddVideoPicture", "RenderUpdate", "ReleaseBuffer",
                      "FenceSignaled"})
       => LET i == last'.index
          IN  /\ \A j \in Slots \ {i} : m_buffers'[j] = m_buffers[j]
              /\ \A b \in RBuf :
                    b \notin {m_buffers[i].videoBuffer, m_buffers'[i].videoBuffer}
                       => refs'[b] = refs[b]]_vars

\* AddVideoPicture has replaced the occupant of one slot while another slot
\* held a buffer with a mapped texture and a pending fence
SlotReplacedBesideBusySlot ==
    /\ last.op = "AddVideoPicture"
    /\ log.released # {}
    /\ \E j \in Slots \ {last.index} :
          /\ m_buffers[j].videoBuffer # NULL
          /\ m_buffers[j].texture # NULL
          /\ m_buffers[j].fence = "unsignaled"

\* C21: a second ReleaseBuffer of the same slot changes nothing and releases
\* nothing, and the first releases at most one reference; ReleaseBuffer of an
\* empty slot and Flush(false) over empty slots change no reference count and
\* no slot; Flush(true) releases nothing and returns true, Flush(false)
\* returns false
ReleaseBufferIdempotent ==
    [][/\ (last'.op = "ReleaseBuffer")
          => LET i == last'.index
                 again == ReleaseBuffer(RWorld', i)
             IN  /\ again.m_buffers = m_buffers'
                 /\ again.refs = refs'
                 /\ again.m_configured = m_configured'
                 /\ again.m_config = m_config'
                 /\ again.log.released = {}
                 /\ Cardinality(log'.released) <= 1
                 /\ \A b \in RBuf : refs'[b] >= refs[b] - 1
                 /\ m_buffers[i].videoBuffer = NULL
                       => (refs' = refs /\ m_buffers' = m_buffers)
       /\ (last'.op = "Flush")
          => /\ log'.ret = last'.save
             /\ last'.save => /\ log'.released = {}
                               /\ refs' = refs
                               /\ m_buffers' = m_buffers
             /\ (~last'.save /\ \A i \in Slots : m_buffers[i].videoBuffer = NULL)
                   => (refs' = refs /\ m_buffers' = m_buffers)]_vars

\* ReleaseBuffer has released the buffer of an occupied slot of a configured
\* renderer
OccupiedSlotReleased ==
    /\ last.op = "ReleaseBuffer"
    /\ m_configured
    /\ log.released # {}
    /\ m_buffers[last.index].videoBuffer = NULL

\* the renderer with one buffer, asked by NeedBuffer at any time
NextNeed ==
    \/ \E winSystem \in BOOLEAN : CallRendererConfigure(PictureOf(1), 0, winSystem)
    \/ \E index \in Slots : CallAddVideoPicture(PictureOf(1), index)
    \/ \E index \in Slots, e \in RenderEnv : CallRenderUpdate(index, e)
    \/ \E index \in Slots : FenceSignaled(index)
    \/ \E index \in Slots : CallNeedBuffer(index)

SpecNeed == Init /\ [][NextNeed]_vars

\* C24: whenever NeedBuffer is called the slot has its fence object, and the
\* call does not end the process
NeedBufferFindsFence ==
    (last.op = "NeedBuffer")
       => (m_buffers[last.index].hasFence /\ ~log.crashed)

\* NeedBuffer was called after a Configure that failed for want of a window
\* system, on a slot that has no fence object, and has ended the process
NeedBufferCrashed ==
    /\ last.op = "NeedBuffer"
    /\ m_config.m_format # "NONE"
    /\ ~m_configured
    /\ ~m_buffers[last.index].hasFence
    /\ log.crashed
    /\ ~alive

\* C8: AddVideoPicture into a slot that holds a buffer logs an error,
\* destroys the slot's fence, unmaps its texture, releases the old buffer
\* once and acquires the new one once; the slot then holds the new buffer
OccupiedSlotReplaced ==
    [][\A i \in Slots :
          (/\ last'.op = "AddVideoPicture"
           /\ last'.index = i
           /\ m_buffers[i].videoBuffer # NULL)
          => LET old == m_buffers[i].videoBuffer
                 new == last'.buf
             IN  /\ log'.errors = 1
                 /\ m_buffers[i].hasFence => i \in log'.fenceDestroyed
                 /\ m_buffers'[i].fence = "none"
                 /\ i \in log'.texUnmapped
                 /\ m_buffers'[i].texture = NULL
                 /\ log'.released = {old}
                 /\ log'.acquired = {new}
                 /\ refs' = [[refs EXCEPT ![old] = @ - 1] EXCEPT ![new] = @ + 1]
                 /\ m_buffers'[i].videoBuffer = new
                 /\ \A j \in Slots \ {i} : m_buffers'[j] = m_buffers[j]]_vars

\* a picture was added to a slot that held another buffer and had a fence
\* object
OccupiedSlotHit ==
    /\ last.op = "AddVideoPicture"
    /\ log.errors = 1
    /\ last.index \in log.fenceDestroyed
    /\ log.released # log.acquired

\* --------------------------------------------------------------- SpecMap
\* every descriptor shape on each of a few buffers, with the calls that import
\* a buffer and those that let go of it
NextMap ==
    \/ \E b \in 1..NMapBuf : \E i \in MapInputs(b, Descs) :
          CallSetVideoPlane(b, i[1], i[2])
    \/ CallUpdateVideoPlane
    \/ CallDestroy

SpecMap == Init /\ [][NextMap]_vars

\* what a buffer the bridge has let go of looks like
Unimported(b) ==
    /\ m_fb_id[b] = 0
    /\ m_handles[b] = ZeroArray
    /\ \A o \in PlaneIdx : HandleOf(b, o) \notin gem

\* C16: no call of the bridge releases the descriptor of a buffer more often
\* than the bridge has acquired it, and a buffer without a live import has as
\* many releases as acquisitions
DescriptorBalanced ==
    /\ log.underflow = 0
    /\ \A b \in Buf : Unimported(b) => descRefs[b] = 0

\* a SetVideoPlane whose AcquireDescriptor failed has called ReleaseDescriptor
ReleaseWithoutAcquire ==
    /\ last.op = "SetVideoPlane"
    /\ ~log.ret
    /\ log.acq = 0
    /\ log.rel = 1
    /\ log.underflow = 1

\* C17: UpdateVideoPlane changes nothing if m_buffer is null or has no
\* framebuffer; otherwise it unmaps and releases m_prev_buffer once, sets it to
\* null, stages FB_ID and CRTC_ID of m_buffer, imports nothing and leaves
\* m_buffer, its framebuffer and its reference count as they were
UpdateVideoPlaneEffect ==
    [][(last'.op = "UpdateVideoPlane")
       => IF m_buffer = NULL \/ m_fb_id[m_buffer] = 0
          THEN /\ log'.staged = {}
               /\ log'.unmapped = {}
               /\ props' = props
               /\ m_buffer' = m_buffer
               /\ m_prev_buffer' = m_prev_buffer
               /\ refs' = refs
               /\ m_fb_id' = m_fb_id
               /\ m_handles' = m_handles
               /\ fbs' = fbs
          ELSE /\ m_prev_buffer' = NULL
               /\ m_buffer' = m_buffer
               /\ m_fb_id'[m_buffer] = m_fb_id[m_buffer]
               /\ m_handles'[m_buffer] = m_handles[m_buffer]
               /\ log'.staged = {"FB_ID", "CRTC_ID"}
               /\ props'["FB_ID"] = m_fb_id[m_buffer]
               /\ props'["CRTC_ID"] = GetCrtcId
               /\ \A n \in PropNames \ {"FB_ID", "CRTC_ID"} : props'[n] = props[n]
               /\ log'.addfb = 0
               /\ log'.acq = 0
               /\ fbs' \subseteq fbs
               /\ \A b \in Buf :
                     refs'[b] = refs[b] - (IF b = m_prev_buffer THEN 1 ELSE 0)
               /\ refs'[m_buffer] = refs[m_buffer]
               /\ IF m_prev_buffer = NULL
                  THEN log'.unmapped = {}
                  ELSE /\ log'.unmapped = {m_prev_buffer}
                       /\ m_fb_id'[m_prev_buffer] = 0
                       /\ m_handles'[m_prev_buffer] = ZeroArray]_vars

\* an UpdateVideoPlane has retired the previous buffer and staged the current
UpdateRetiredPrevious ==
    /\ last.op = "UpdateVideoPlane"
    /\ log.unmapped # {}
    /\ log.rmfb = 1
    /\ log.staged = {"FB_ID", "CRTC_ID"}
    /\ m_prev_buffer = NULL
    /\ m_buffer # NULL

\* C18: between calls a buffer with a framebuffer or an imported handle is
\* m_buffer or m_prev_buffer of a living bridge, which holds a reference on it,
\* and no call drops a reference on a buffer that still has its framebuffer,
\* a handle or its descriptor
ImportWithinReference ==
    /\ \A b \in Buf :
          ~Unimported(b) => /\ alive
                            /\ b \in {m_buffer, m_prev_buffer}
                            /\ refs[b] >= 1
    /\ log.liveDrops = 0

\* a call has retired an imported buffer: its framebuffer is removed, its
\* handles are closed, its descriptor is released and the reference is dropped
RetiredAfterUnmap ==
    /\ log.rmfb >= 1
    /\ log.closed >= 1
    /\ log.rel >= 1
    /\ log.liveDrops = 0
    /\ \E b \in log.unmapped : refs[b] = 0 /\ Unimported(b) /\ descRefs[b] = 0

\* displays of every combination of connector properties and EDID capabilities
GateEnvs == {e \in Env : e.plane /\ e.encFound /\ e.rangeFound}

NextGate ==
    \/ \E picture \in {PicSDR, PicHDR10}, e \in GateEnvs : CallConfigure(picture, e)
    \/ \E e \in DisplayEnvs : CallDisable(e)

InitGate == InitWith(Rect(1, MaxCoord, MaxCoord, 1), NoMeta)

SpecGate == InitGate /\ [][NextGate]_vars

\* C19: Configure stages Colorspace exactly if the connector resolves the
\* colorimetry and the EDID supports it; it replaces the blob and stages
\* HDR_OUTPUT_METADATA if the connector has the property and the EDID supports
\* the transfer function, and otherwise leaves blob and staged value as they
\* were; it always calls SetActive
ConfigureGated ==
    [][(last'.op = "Configure")
       => LET e == last'.env
              picture == last'.picture
          IN  /\ IF e.csFound /\ e.edidCs
                 THEN /\ "Colorspace" \in log'.staged
                      /\ props'["Colorspace"] = picture.colorimetry
                 ELSE /\ "Colorspace" \notin log'.staged
                      /\ props'["Colorspace"] = props["Colorspace"]
              /\ IF e.hdrProp /\ e.edidEotf
                 THEN /\ "HDR_OUTPUT_METADATA" \in log'.staged
                      /\ props'["HDR_OUTPUT_METADATA"] = m_hdr_blob_id'
                      /\ blobs' = {x \in blobs' : x.id = m_hdr_blob_id'}
                      /\ e.blobOk => \E x \in blobs' : x.id = m_hdr_blob_id'
                 ELSE /\ "HDR_OUTPUT_METADATA" \notin log'.staged
                      /\ props'["HDR_OUTPUT_METADATA"] = props["HDR_OUTPUT_METADATA"]
                      /\ m_hdr_blob_id' = m_hdr_blob_id
                      /\ blobs' = blobs
              /\ log'.active]_vars

\* a Configure on a display whose connector resolves the colorimetry and has
\* the HDR property, but whose EDID supports neither, has staged neither and
\* has kept the blob of an earlier Configure
ConfigureFellBack ==
    /\ last.op = "Configure"
    /\ last.env.csFound /\ ~last.env.edidCs
    /\ last.env.hdrProp /\ ~last.env.edidEotf
    /\ "Colorspace" \notin log.staged
    /\ "HDR_OUTPUT_METADATA" \notin log.staged
    /\ m_hdr_blob_id # 0
    /\ props["HDR_OUTPUT_METADATA"] = m_hdr_blob_id
    /\ log.active

\* the bridge on displays of every capability, with one buffer staged and
\* refreshed in between
NextBlob ==
    \/ NextGate
    \/ \E i \in MapInputs(1, {DescOf(1)}) : CallSetVideoPlane(1, i[1], i[2])
    \/ CallUpdateVideoPlane

SpecBlob == InitGate /\ [][NextBlob]_vars

\* C22: the value staged for HDR_OUTPUT_METADATA is never set, 0, or the id
\* of the one blob that is live, which is m_hdr_blob_id; it is never the id of
\* a blob that is destroyed
StagedBlobLive ==
    \/ props["HDR_OUTPUT_METADATA"] \in {Unset, 0}
    \/ /\ props["HDR_OUTPUT_METADATA"] = m_hdr_blob_id
       /\ \E x \in blobs : x.id = props["HDR_OUTPUT_METADATA"]

\* a Configure has destroyed the blob of an earlier Configure, has failed to
\* create the new one and has staged 0
BlobCreationFailed ==
    /\ last.op = "Configure"
    /\ last.env.hdrProp /\ last.env.edidEotf /\ ~last.env.blobOk
    /\ log.destroyed # {}
    /\ blobs = {}
    /\ props["HDR_OUTPUT_METADATA"] = 0

\* C23: while the bridge lives, m_buffer and m_prev_buffer, when set, point to
\* buffers that have a framebuffer, and to different buffers when both are set;
\* the bridge never holds a buffer twice nor releases one it does not hold
HeldBuffersMapped ==
    /\ alive => /\ m_buffer # NULL => m_fb_id[m_buffer] # 0
                /\ m_prev_buffer # NULL => m_fb_id[m_prev_buffer] # 0
                /\ (m_buffer # NULL /\ m_prev_buffer # NULL)
                      => m_buffer # m_prev_buffer
    /\ \A b \in Buf : refs[b] \in {0, 1}

\* the bridge holds a current and a previous buffer after a SetVideoPlane that
\* failed for a third buffer
HoldsTwoAfterFailure ==
    /\ last.op = "SetVideoPlane"
    /\ ~log.ret
    /\ m_buffer # NULL
    /\ m_prev_buffer # NULL
    /\ last.buf \notin {m_buffer, m_prev_buffer}

\* C2: the buffer of the last successful SetVideoPlane still has its
\* framebuffer and a reference of the bridge when the next SetVideoPlane, for
\* a different buffer, returns
SupersededStaysLive ==
    [][(/\ last'.op = "SetVideoPlane"
        /\ shown # NULL
        /\ last'.buf # shown)
       => (m_fb_id'[shown] # 0 /\ refs'[shown] > 0)]_vars

\* C3: a SetVideoPlane(b) right after the SetVideoPlane(b) that imported b
\* finds b imported: over both calls one framebuffer is created, the
\* descriptor is acquired once, one reference is added, and the second call
\* leaves current, previous and the import as the first left them
MapTwiceImportsOnce ==
    [][(/\ last'.op = "SetVideoPlane"
        /\ last'.again)
       => (/\ log'.ret
           /\ log.addfb + log'.addfb = 1
           /\ log.acq + log'.acq = 1
           /\ refs' = refs
           /\ refs'[last'.buf] = 1
           /\ descRefs' = descRefs
           /\ m_buffer' = m_buffer
           /\ m_prev_buffer' = m_prev_buffer
           /\ m_fb_id' = m_fb_id
           /\ m_handles' = m_handles
           /\ fbs' = fbs)]_vars

\* the second of two SetVideoPlane(b) in a row has returned, b being current
MapTwiceDone ==
    /\ last.op = "SetVideoPlane"
    /\ last.again
    /\ m_buffer = last.buf
    /\ m_prev_buffer # NULL

\* C4: every buffer that Unmap was called on during the last call, after a
\* Map that succeeded or one that failed part-way, has framebuffer id 0 and no
\* handle left, in m_handles or open in the kernel
UnmapLeavesNothing ==
    \A b \in log.unmapped : Unimported(b)

\* UpdateVideoPlane has let go of the previous buffer, one of four objects:
\* its framebuffer is removed and its four handles are closed
UnmapOfFourObjects ==
    /\ last.op = "UpdateVideoPlane"
    /\ log.closed = AV_DRM_MAX_PLANES
    /\ log.rmfb = 1
    /\ log.unmapped # {}
    /\ m_buffer # NULL

\* C5: a SetVideoPlane whose Map fails stages no property, leaves the buffer
\* without framebuffer and handles, and leaves current, previous and every
\* reference count as they were
FailedStageChangesNothing ==
    [][(/\ last'.op = "SetVideoPlane"
        /\ ~log'.ret)
       => (/\ log'.staged = {}
           /\ props' = props
           /\ m_fb_id'[last'.buf] = 0
           /\ m_handles'[last'.buf] = ZeroArray
           /\ \A o \in PlaneIdx : HandleOf(last'.buf, o) \notin gem'
           /\ m_buffer' = m_buffer
           /\ m_prev_buffer' = m_prev_buffer
           /\ refs' = refs)]_vars

\* a SetVideoPlane failed at the framebuffer creation, after its handles were
\* imported, while the bridge presented other buffers
FailedStageAfterImport ==
    /\ last.op = "SetVideoPlane"
    /\ ~log.ret
    /\ log.addfb = 1
    /\ log.closed > 1
    /\ m_buffer # NULL
    /\ m_prev_buffer # NULL
    /\ props["FB_ID"] = m_fb_id[m_buffer]

====
